---- MODULE Spec2Model ----
(***************************************************************************)
(* Model of src/util.rs of camera-intrinsic: the calibration pipeline      *)
(* (find_best_two_frames, try_init_camera, init_ucm, calib_camera,         *)
(* convert_model, validation).                                             *)
(*                                                                         *)
(* Conventions.                                                            *)
(*  - Frame indices are the 0-based indices of the Rust slices; frame i is *)
(*    frames[i + 1].  Scalar indices of parameter vectors are 0-based too  *)
(*    (params[k + 1] is scalar k).                                         *)
(*  - f32 values (find_best_two_frames and its helpers) and the f64 values *)
(*    of validation's statistics are IEEE 754 numbers with their rounding. *)
(*    The f64 scalars of parameter vectors, on which util.rs only does     *)
(*    exact operations, are fractions [num, den] (den > 0).                *)
(*  - A frame's features are a sequence: the order in which the HashMap of *)
(*    the frame is iterated.                                               *)
(*  - The collaborators that are not part of util.rs (the least-squares    *)
(*    optimizer, the absolute-pose solver, the camera model's unproject    *)
(*    and project, the homography bootstrap) are nondeterministic: their   *)
(*    outcome is drawn from the outcomes their signature allows.           *)
(***************************************************************************)
EXTENDS Integers, Sequences, FiniteSets, TLC

VARIABLES
    op,                   \* the public function the caller invokes
    pc,                   \* the position of the running call
    caller,               \* who called calib_camera: "user" or "init_ucm"
    frames,               \* detected_feature_frames / frame_feature_list
    camera,               \* generic_camera / source_model: [params, w, h]
    xy_same_focal,        \* calib_camera argument
    disabled_distortions, \* calib_camera / convert_model argument
    fixed_focal,          \* calib_camera argument (bool)
    focal_arg,            \* try_init_camera's fixed_focal: Option<f64>
    frame_i,              \* calib_camera: the frame the loop is at
    problem,              \* tiny_solver::Problem: pinned scalars, pose blocks
    values,               \* initial_values, then result: params and poses
    valid_indexes,        \* calib_camera: valid_indexes
    ret,                  \* what calib_camera returned
    init_ret,             \* what try_init_camera returned
    target,               \* convert_model: target_model and the call's progress
    best,                 \* what find_best_two_frames returned
    point_errors,         \* the per-point reprojection errors project_one yields
    report                \* what validation computed and printed

vars == <<op, pc, caller, frames, camera, xy_same_focal, disabled_distortions,
          fixed_focal, focal_arg, frame_i, problem, values, valid_indexes, ret,
          init_ret, target, best, point_errors, report>>

(***************************************************************************)
(* Bounds of the model.                                                    *)
(***************************************************************************)
\* find_best_two_frames: frames per sequence, features per frame
SelMaxFrames == 3
SelMaxPts == 3
\* calib_camera: frames per sequence, features per frame
MaxFrames == 2
MaxPts == 1
\* distortion parameters of the starting model (4 + d scalars)
MaxDistortion == 2
\* largest scalar / pose value the solver collaborator yields
MaxVal == 2
\* validation statistics: number of errors, largest error
MaxErrs == 4
MaxErr == 3

(***************************************************************************)
(* Generic helpers.                                                        *)
(***************************************************************************)
Max(a, b) == IF a >= b THEN a ELSE b
Last(s) == s[Len(s)]
\* the sequence s with its elements evaluated
Seq_(s) == SubSeq(s, 1, Len(s))

RECURSIVE SumSeq(_)
SumSeq(s) == IF s = <<>> THEN 0 ELSE s[1] + SumSeq(Tail(s))

RECURSIVE Gcd(_, _)
Gcd(a, b) == IF b = 0 THEN a ELSE Gcd(b, a % b)
Abs(a) == IF a < 0 THEN -a ELSE a

\* a fraction num/den in lowest terms, den > 0: the value of an f64 where the
\* code's operations on it are exact (halving, products of small values)
Frac(n, d) == LET g == Gcd(Abs(n), d) IN [num |-> n \div g, den |-> d \div g]
FracMul(a, b) == Frac(a.num * b.num, a.den * b.den)
FracLess(a, b) == a.num * b.den < b.num * a.den
FracMax(a, b) == IF FracLess(a, b) THEN b ELSE a
\* the f64 of an integer value
Num(n) == Frac(n, 1)

\* Option<T>
None == [some |-> FALSE]
Some(v) == [some |-> TRUE, val |-> v]

(***************************************************************************)
(* f32 arithmetic (IEEE 754 binary32, round to nearest, ties to even).  A   *)
(* value is [m, e], standing for m * 2^e, with m = 0 (and e = 0) or         *)
(* 2^23 <= |m| < 2^24.  Subnormals and NaN do not occur for the values the  *)
(* model computes with; an overflow gives infinity, held as (+-2^23, 105),  *)
(* which compares above (below) every finite value.                         *)
(***************************************************************************)
\* the powers of two 2^0 .. 2^n, and 2^k for k <= 30
RECURSIVE Doubling(_)
Doubling(n) == IF n = 0 THEN <<1>>
               ELSE LET s == Doubling(n - 1) IN Append(s, 2 * s[n])
Pow2Table == Doubling(30)
Pow2(k) == Pow2Table[k + 1]

F32Zero == [m |-> 0, e |-> 0]
F32Inf(neg) == [m |-> IF neg THEN -Pow2(23) ELSE Pow2(23), e |-> 105]
\* f32::MAX and f32::MIN
F32MAX == [m |-> Pow2(24) - 1, e |-> 104]
F32MIN == [m |-> 1 - Pow2(24), e |-> 104]

\* the f32 nearest to (n + t) * 2^e, negated if neg: n a natural number below
\* 2^31 and 0 <= t < 1, with sticky telling whether t > 0 (then n >= 2^24)
RECURSIVE F32Round(_, _, _, _)
F32Round(neg, n, e, sticky) ==
    IF n = 0 THEN F32Zero
    ELSE IF n < Pow2(23) THEN F32Round(neg, 2 * n, e - 1, sticky)
    ELSE LET k == CHOOSE j \in 0..7 : n < Pow2(24 + j) /\ (j = 0 \/ Pow2(23 + j) <= n)
             q == n \div Pow2(k)
             r == n % Pow2(k)
             half == IF k = 0 THEN 1 ELSE Pow2(k - 1)
             up == k > 0 /\ (r > half \/ (r = half /\ (sticky \/ q % 2 = 1)))
             m == IF up THEN q + 1 ELSE q
             mm == IF m = Pow2(24) THEN Pow2(23) ELSE m
             ee == IF m = Pow2(24) THEN e + k + 1 ELSE e + k
         IN  IF ee > 104 THEN F32Inf(neg)
             ELSE [m |-> IF neg THEN -mm ELSE mm, e |-> ee]

\* i as f32 (|i| < 2^24)
F32(i) == F32Round(i < 0, Abs(i), 0, FALSE)
F32Neg(x) == [x EXCEPT !.m = -@]

\* x + y: the operand of smaller exponent is aligned with three guard bits
\* and a sticky bit
F32Add(x, y) ==
    IF x.m = 0 THEN y
    ELSE IF y.m = 0 THEN x
    ELSE LET hi == IF x.e >= y.e THEN x ELSE y
             lo == IF x.e >= y.e THEN y ELSE x
             d == hi.e - lo.e
         IN  IF d > 26 THEN hi
             ELSE LET a == Abs(hi.m) * 8
                      b == Abs(lo.m) * 8
                      bq == b \div Pow2(d)
                      st == (b % Pow2(d)) # 0
                  IN  IF (hi.m < 0) = (lo.m < 0)
                      THEN F32Round(hi.m < 0, a + bq, hi.e - 3, st)
                      ELSE IF st THEN F32Round(hi.m < 0, a - bq - 1, hi.e - 3, TRUE)
                      ELSE IF a >= bq THEN F32Round(hi.m < 0, a - bq, hi.e - 3, FALSE)
                      ELSE F32Round(lo.m < 0, bq - a, hi.e - 3, FALSE)
F32Sub(x, y) == F32Add(x, F32Neg(y))

\* x * y: the 48-bit product of the mantissas, from their 12-bit halves
F32Mul(x, y) ==
    IF x.m = 0 \/ y.m = 0 THEN F32Zero
    ELSE LET a == Abs(x.m)
             b == Abs(y.m)
             ah == a \div 4096
             al == a % 4096
             bh == b \div 4096
             bl == b % 4096
             mid == ah * bl + al * bh
             low == al * bl + (mid % 4096) * 4096
             hi == ah * bh + (mid \div 4096) + (low \div Pow2(24))
             lo == low % Pow2(24)
         IN  F32Round((x.m < 0) # (y.m < 0), hi * 64 + (lo \div Pow2(18)),
                      x.e + y.e + 18, (lo % Pow2(18)) # 0)

\* x / (n as f32), n a positive integer: long division to 27 quotient bits
RECURSIVE F32DivBits(_, _, _, _)
F32DivBits(q, r, e, n) ==
    IF q >= Pow2(26) THEN [q |-> q, r |-> r, e |-> e]
    ELSE F32DivBits(2 * q + (IF 2 * r >= n THEN 1 ELSE 0), (2 * r) % n, e - 1, n)
F32DivInt(x, n) ==
    IF x.m = 0 THEN F32Zero
    ELSE LET s == F32DivBits(Abs(x.m) \div n, Abs(x.m) % n, x.e, n)
         IN  F32Round(x.m < 0, s.q, s.e, s.r # 0)

\* x < y
F32Less(x, y) ==
    IF x.m = 0 THEN y.m > 0
    ELSE IF y.m = 0 THEN x.m < 0
    ELSE IF (x.m < 0) # (y.m < 0) THEN x.m < 0
    ELSE IF x.m > 0 THEN x.e < y.e \/ (x.e = y.e /\ x.m < y.m)
    ELSE x.e > y.e \/ (x.e = y.e /\ x.m < y.m)
\* f32::min and f32::max
F32Min(x, y) == IF F32Less(y, x) THEN y ELSE x
F32Max(x, y) == IF F32Less(x, y) THEN y ELSE x

(***************************************************************************)
(* f64 arithmetic (IEEE 754 binary64, round to nearest, ties to even), for  *)
(* validation's statistics.  Natural numbers beyond 2^31 are sequences of   *)
(* limbs in base 2^15, lowest limb first, without leading zero limbs.  An   *)
(* f64 is [neg, m, e], standing for (-1)^neg * m * 2^e, with m = <<>> (zero,*)
(* e = 0) or a 53-bit number.  Subnormals, infinities and NaN do not occur  *)
(* for the values the model computes with.                                  *)
(***************************************************************************)
Limb == Pow2(15)

RECURSIVE BigOf(_)
BigOf(n) == IF n = 0 THEN <<>> ELSE <<n % Limb>> \o BigOf(n \div Limb)

RECURSIVE BigTrim(_)
BigTrim(a) ==
    IF a = <<>> \/ Last(a) # 0 THEN a ELSE BigTrim(SubSeq(a, 1, Len(a) - 1))

RECURSIVE BigAddC(_, _, _)
BigAddC(a, b, c) ==
    IF a = <<>> /\ b = <<>> THEN (IF c = 0 THEN <<>> ELSE <<c>>)
    ELSE LET x == (IF a = <<>> THEN 0 ELSE a[1]) + (IF b = <<>> THEN 0 ELSE b[1]) + c
         IN  <<x % Limb>> \o BigAddC(IF a = <<>> THEN a ELSE Tail(a),
                                      IF b = <<>> THEN b ELSE Tail(b), x \div Limb)
BigAdd(a, b) == BigAddC(a, b, 0)

\* a - b for a >= b
RECURSIVE BigSubC(_, _, _)
BigSubC(a, b, c) ==
    IF a = <<>> THEN <<>>
    ELSE LET x == a[1] - (IF b = <<>> THEN 0 ELSE b[1]) - c
         IN  <<x % Limb>> \o BigSubC(Tail(a), IF b = <<>> THEN b ELSE Tail(b),
                                      IF x < 0 THEN 1 ELSE 0)
BigSub(a, b) == BigTrim(BigSubC(a, b, 0))

RECURSIVE BigLess(_, _)
BigLess(a, b) ==
    IF Len(a) # Len(b) THEN Len(a) < Len(b)
    ELSE IF a = <<>> THEN FALSE
    ELSE IF Last(a) # Last(b) THEN Last(a) < Last(b)
    ELSE BigLess(BigTrim(SubSeq(a, 1, Len(a) - 1)), BigTrim(SubSeq(b, 1, Len(b) - 1)))

\* the number of bits of a
BigBits(a) ==
    IF a = <<>> THEN 0
    ELSE 15 * (Len(a) - 1) + (CHOOSE j \in 1..15 : Last(a) < Pow2(j) /\ Pow2(j - 1) <= Last(a))

\* a * 2^k and floor(a / 2^k)
RECURSIVE BigShlC(_, _, _)
BigShlC(a, b, c) ==
    IF a = <<>> THEN (IF c = 0 THEN <<>> ELSE <<c>>)
    ELSE LET x == a[1] * Pow2(b) + c
         IN  <<x % Limb>> \o BigShlC(Tail(a), b, x \div Limb)
BigShl(a, k) ==
    IF a = <<>> THEN a
    ELSE [j \in 1..(k \div 15) |-> 0] \o BigShlC(a, k % 15, 0)
BigShr(a, k) ==
    LET w == k \div 15
        b == k % 15
        d == SubSeq(a, w + 1, Len(a))
    IN  BigTrim([j \in 1..Len(d) |->
                    (d[j] \div Pow2(b))
                    + (IF j < Len(d) THEN (d[j + 1] % Pow2(b)) * Pow2(15 - b) ELSE 0)])
\* bit i of a (bit 0 is the lowest)
BigBit(a, i) ==
    IF (i \div 15) + 1 > Len(a) THEN 0 ELSE (a[(i \div 15) + 1] \div Pow2(i % 15)) % 2
BigOdd(a) == BigBit(a, 0) = 1

\* a * n for n < 2^15, and a divided by n (n < 2^16): [q, r]
RECURSIVE BigMulC(_, _, _)
BigMulC(a, n, c) ==
    IF a = <<>> THEN BigOf(c)
    ELSE LET x == a[1] * n + c
         IN  <<x % Limb>> \o BigMulC(Tail(a), n, x \div Limb)
BigMulSmall(a, n) == BigTrim(BigMulC(a, n, 0))
RECURSIVE BigDivSmall(_, _)
BigDivSmall(a, n) ==
    IF a = <<>> THEN [q |-> <<>>, r |-> 0]
    ELSE LET up == BigDivSmall(Tail(a), n)
             x == up.r * Limb + a[1]
         IN  [q |-> BigTrim(<<x \div n>> \o up.q), r |-> x % n]

F64Zero(neg) == [neg |-> neg, m |-> <<>>, e |-> 0]

\* the f64 nearest to (n + t) * 2^e, negated if neg: n a natural number and
\* 0 <= t < 1, with sticky telling whether t > 0 (then n has 54 bits or more)
F64Round(neg, n, e, sticky) ==
    LET len == BigBits(n)
        k == len - 53
    IN  IF len = 0 THEN F64Zero(neg)
        ELSE IF k <= 0 THEN [neg |-> neg, m |-> BigShl(n, -k), e |-> e + k]
        ELSE LET q == BigShr(n, k)
                 below == sticky \/ BigShl(BigShr(n, k - 1), k - 1) # n
                 up == BigBit(n, k - 1) = 1 /\ (below \/ BigOdd(q))
                 m == IF up THEN BigAdd(q, <<1>>) ELSE q
             IN  IF BigBits(m) > 53
                 THEN [neg |-> neg, m |-> BigShr(m, 1), e |-> e + k + 1]
                 ELSE [neg |-> neg, m |-> m, e |-> e + k]

\* the natural number i as f64
F64(i) == F64Round(FALSE, BigOf(i), 0, FALSE)

\* x + y: the operand of smaller exponent is aligned with three guard bits
\* and a sticky bit; -0.0 + -0.0 is -0.0, every other zero sum is +0.0
F64Add(x, y) ==
    IF x.m = <<>> /\ y.m = <<>> THEN F64Zero(x.neg /\ y.neg)
    ELSE IF x.m = <<>> THEN y
    ELSE IF y.m = <<>> THEN x
    ELSE LET hi == IF x.e >= y.e THEN x ELSE y
             lo == IF x.e >= y.e THEN y ELSE x
             d == hi.e - lo.e
         IN  IF d > 56 THEN hi
             ELSE LET a == BigShl(hi.m, 3)
                      b == BigShl(lo.m, 3)
                      bq == BigShr(b, d)
                      st == BigShl(bq, d) # b
                  IN  IF hi.neg = lo.neg
                      THEN F64Round(hi.neg, BigAdd(a, bq), hi.e - 3, st)
                      ELSE IF st
                      THEN F64Round(hi.neg, BigSub(BigSub(a, bq), <<1>>), hi.e - 3, TRUE)
                      ELSE IF a = bq THEN F64Zero(FALSE)
                      ELSE IF BigLess(a, bq)
                      THEN F64Round(lo.neg, BigSub(bq, a), hi.e - 3, FALSE)
                      ELSE F64Round(hi.neg, BigSub(a, bq), hi.e - 3, FALSE)

\* x / (n as f64), n a positive integer below 2^15: long division to 56
\* quotient bits or more
RECURSIVE F64DivBits(_, _, _, _)
F64DivBits(q, r, e, n) ==
    IF BigBits(q) >= 56 THEN [q |-> q, r |-> r, e |-> e]
    ELSE F64DivBits(BigAdd(BigShl(q, 1), IF 2 * r >= n THEN <<1>> ELSE <<>>),
                    (2 * r) % n, e - 1, n)
F64DivInt(x, n) ==
    IF x.m = <<>> THEN x
    ELSE LET d == BigDivSmall(x.m, n)
             s == F64DivBits(d.q, d.r, x.e, n)
         IN  F64Round(x.neg, s.q, s.e, s.r # 0)

\* slice::sort_by with the comparator a.key.partial_cmp(b.key): a stable sort,
\* ascending in the key.  The items are pairs <<item, key>>, key an f32.
RECURSIVE InsertStable(_, _)
InsertStable(sorted, e) ==
    IF sorted = <<>> THEN <<e>>
    ELSE IF F32Less(e[2], Last(sorted)[2])
         THEN Append(InsertStable(SubSeq(sorted, 1, Len(sorted) - 1), e), Last(sorted))
         ELSE Append(sorted, e)

RECURSIVE sort_by(_)
sort_by(v) ==
    IF v = <<>> THEN <<>>
    ELSE InsertStable(sort_by(SubSeq(v, 1, Len(v) - 1)), Last(v))

(***************************************************************************)
(* Frames.  A present frame holds its features' pixel positions (p2d), in  *)
(* the order in which its feature map is iterated, and, for calib_camera,  *)
(* what the collaborators answer for it under the starting model: how many *)
(* of its points unproject, and whether the absolute-pose solver finds a   *)
(* pose from those.                                                        *)
(***************************************************************************)
\* img_w_h of the frames of a run
ImageSizes == {<<640, 480>>, <<480, 640>>, <<641, 481>>}
DefaultImg == <<640, 480>>

NoFrame == [some |-> FALSE, pts |-> <<>>, unproj |-> 0, pnp |-> FALSE,
            img |-> DefaultImg]
FrameOf(pts, u, p, img) ==
    [some |-> TRUE, pts |-> pts, unproj |-> u, pnp |-> p, img |-> img]
Frame(pts, u, p) == FrameOf(pts, u, p, DefaultImg)

(***************************************************************************)
(* find_best_two_frames and its helpers.                                   *)
(***************************************************************************)
\* glam::Vec2: [x, y], each an f32
Vec2(x, y) == [x |-> F32(x), y |-> F32(y)]
Vec2Add(a, e) == [x |-> F32Add(a.x, e.x), y |-> F32Add(a.y, e.y)]
Vec2Sub(a, e) == [x |-> F32Sub(a.x, e.x), y |-> F32Sub(a.y, e.y)]
Vec2Div(a, n) == [x |-> F32DivInt(a.x, n), y |-> F32DivInt(a.y, n)]

\* Iterator::reduce(|acc, e| acc + e) over a non-empty sequence of vectors
RECURSIVE Vec2Sum(_)
Vec2Sum(s) ==
    IF Len(s) = 1 THEN s[1]
    ELSE Vec2Add(Vec2Sum(SubSeq(s, 1, Len(s) - 1)), Last(s))

\* features_avg_center: the mean of the features' p2d (called on a non-empty map)
features_avg_center(pts) ==
    Vec2Div(Vec2Sum([k \in 1..Len(pts) |-> Vec2(pts[k][1], pts[k][2])]), Len(pts))

\* lines 71-77, the closure of the fold: acc is (xmin, ymin, xmax, ymax) as
\* acc.0 .. acc.3; the new xmax and ymax are taken from acc.0 and acc.1
covered_area_step(acc, e) ==
    <<F32Min(acc[1], e.x), F32Min(acc[2], e.y),
      F32Max(acc[1], e.x), F32Max(acc[2], e.y)>>

\* lines 69-78: the fold over the first n features, from
\* (f32::MAX, f32::MAX, f32::MIN, f32::MIN)
RECURSIVE covered_area_fold(_, _)
covered_area_fold(pts, n) ==
    IF n = 0 THEN <<F32MAX, F32MAX, F32MIN, F32MIN>>
    ELSE covered_area_step(covered_area_fold(pts, n - 1),
                           Vec2(pts[n][1], pts[n][2]))

\* features_covered_area: (xmax - xmin) * (ymax - ymin) of the fold's result
features_covered_area(pts) ==
    LET acc == covered_area_fold(pts, Len(pts))
    IN  F32Mul(F32Sub(acc[3], acc[1]), F32Sub(acc[4], acc[2]))

\* vec2_distance2: the squared distance of two vectors
vec2_distance2(v0, v1) ==
    LET v == Vec2Sub(v0, v1)
    IN  F32Add(F32Mul(v.x, v.x), F32Mul(v.y, v.y))

\* one iteration of the scan (the body of the for loop)
max_detection_step(st, i, f) ==
    IF ~f.some THEN st
    ELSE IF Len(f.pts) > st.max_detection
         THEN [max_detection |-> Len(f.pts), max_detection_idxs |-> <<i>>]
         ELSE IF Len(f.pts) < st.max_detection THEN st
              ELSE [st EXCEPT !.max_detection_idxs = Append(@, i)]

\* the scan over frames 0 .. n-1
RECURSIVE max_detection_scan(_, _)
max_detection_scan(fs, n) ==
    IF n = 0 THEN [max_detection |-> 0, max_detection_idxs |-> <<>>]
    ELSE max_detection_step(max_detection_scan(fs, n - 1), n - 1, fs[n])

\* find_best_two_frames: [status, pair]; the call panics (an unwrap of None)
\* when no frame is present or when the largest present frame has no feature
find_best_two_frames(fs) ==
    LET idxs == max_detection_scan(fs, Len(fs)).max_detection_idxs
        empty == \E k \in 1..Len(idxs) : Len(fs[idxs[k] + 1].pts) = 0
    IN  IF idxs = <<>> \/ empty
        THEN [status |-> "panic", pair |-> <<>>]
        ELSE
        LET p_avg == Seq_([k \in 1..Len(idxs) |->
                         features_avg_center(fs[idxs[k] + 1].pts)])
            avg_all == Vec2Div(Vec2Sum(p_avg), Len(idxs))
            v0 == sort_by(Seq_([k \in 1..Len(idxs) |->
                              <<idxs[k], vec2_distance2(p_avg[k], avg_all)>>]))
            v1 == sort_by(Seq_([k \in 1..Len(idxs) |->
                              <<idxs[k], features_covered_area(fs[idxs[k] + 1].pts)>>]))
        IN  [status |-> "ok", pair |-> <<Last(v1)[1], Last(v0)[1]>>]

(***************************************************************************)
(* Parameter vectors, the problem and the solver collaborator.             *)
(***************************************************************************)
\* DVector::remove_row(k) and DVector::insert_row(k, x), k 0-based
remove_row(v, k) == SubSeq(v, 1, k) \o SubSeq(v, k + 2, Len(v))
insert_row(v, k, x) == SubSeq(v, 1, k) \o <<x>> \o SubSeq(v, k + 1, Len(v))

\* scalar k (0-based) of a vector, and the vector with scalar k set to x
At(v, k) == v[k + 1]
SetAt(v, k, x) == [v EXCEPT ![k + 1] = x]

\* the vectors inputs and solver outcomes are drawn from: scalar k of vector c
\* is (c + k + 1) mod (MaxVal + 1), so every scalar takes every value and
\* neighbouring scalars differ.  Scalars are f64, held as exact fractions.
Vector(len, c) == [k \in 1..len |-> Num((c + k) % (MaxVal + 1))]

NoPoses == [i \in {} |-> 0]
WithPose(poses, i, p) ==
    [j \in DOMAIN poses \cup {i} |-> IF j = i THEN p ELSE poses[j]]

NewProblem == [fixed |-> {}, bounded |-> {}, pose_blocks |-> {}]

\* set_problem_parameter_bound: the scalars of "params" that get bounds
set_problem_parameter_bound(prob, generic_camera, xy) ==
    LET shift == IF xy THEN 1 ELSE 0
        distortion == 4..(Len(generic_camera.params) - 1)
    IN  [prob EXCEPT !.bounded =
            @ \cup {0, 1 - shift, 2 - shift, 3 - shift}
              \cup {k - shift : k \in distortion}]

\* the scalars set_problem_parameter_disabled addresses
disabled_idxs(generic_camera, xy, disabled) ==
    LET shift == IF xy THEN 1 ELSE 0
    IN  {Len(generic_camera.params) - 1 - shift - i : i \in 0..(disabled - 1)}

RECURSIVE ZeroAll(_, _)
ZeroAll(v, idxs) ==
    IF idxs = {} THEN v
    ELSE LET k == CHOOSE k \in idxs : TRUE
         IN  ZeroAll(SetAt(v, k, Num(0)), idxs \ {k})

\* a faulty variant that zeroes the disabled scalars without pinning them
set_problem_parameter_disabled_unpinned(pv, generic_camera, xy, disabled) ==
    [prob |-> pv.prob,
     vals |-> [pv.vals EXCEPT !.params =
                  ZeroAll(@, disabled_idxs(generic_camera, xy, disabled))]]

\* set_problem_parameter_disabled on (problem, init_values): each of the last
\* `disabled` scalars is pinned and its initial value set to 0
set_problem_parameter_disabled(pv, generic_camera, xy, disabled) ==
    [prob |-> [pv.prob EXCEPT !.fixed =
                  @ \cup disabled_idxs(generic_camera, xy, disabled)],
     vals |-> [pv.vals EXCEPT !.params =
                  ZeroAll(@, disabled_idxs(generic_camera, xy, disabled))]]

\* Optimizer::optimize: None, or a value for every block of the initial
\* values.  A pinned scalar keeps its initial value; the other scalars and the
\* poses are the solver's (frame i's pose differs from frame i+1's).
Solution(prob, initial, c) ==
    [params |-> [k \in 1..Len(initial.params) |->
                    IF (k - 1) \in prob.fixed THEN initial.params[k]
                    ELSE Vector(Len(initial.params), c)[k]],
     poses  |-> [i \in DOMAIN initial.poses |-> (c + i) % (MaxVal + 1)]]

optimize(prob, initial) ==
    {None} \cup {Some(Solution(prob, initial, c)) : c \in 0..MaxVal}

(***************************************************************************)
(* calib_camera.                                                           *)
(***************************************************************************)
NoRet == [status |-> "none", why |-> "", params |-> <<>>, rtvec_vec |-> <<>>]
Panicked(why) == [status |-> "panic", why |-> why, params |-> <<>>,
                  rtvec_vec |-> <<>>]

callvars == <<camera, xy_same_focal, disabled_distortions, fixed_focal, caller>>
inputs == <<op, frames, focal_arg, point_errors>>
others == <<init_ret, target, best, report>>

\* lines 339-349: the optimization block is the model's vector, without fy
\* when xy_same_focal
CalibBegin ==
    /\ pc = "calib_camera"
    /\ values' = [params |-> IF xy_same_focal
                             THEN remove_row(camera.params, 1)
                             ELSE camera.params,
                  poses  |-> NoPoses]
    /\ problem' = NewProblem
    /\ valid_indexes' = <<>>
    /\ frame_i' = 0
    /\ pc' = "calib_frames"
    /\ UNCHANGED <<callvars, inputs, others, ret>>

\* lines 350-391, one iteration of the loop over the frames: residual blocks
\* for every feature, then the pose seed of sqpnp_solve_glam(..).unwrap()
CalibFrame ==
    /\ pc = "calib_frames"
    /\ frame_i < Len(frames)
    /\ LET f == frames[frame_i + 1] IN
       IF ~f.some
       THEN /\ frame_i' = frame_i + 1
            /\ UNCHANGED <<pc, problem, values, valid_indexes, ret>>
       ELSE /\ problem' = [problem EXCEPT !.pose_blocks =
                              @ \cup (IF Len(f.pts) > 0 THEN {frame_i} ELSE {})]
            /\ valid_indexes' = Append(valid_indexes, frame_i)
            /\ IF f.pnp
               THEN /\ values' = [values EXCEPT !.poses =
                                     IF frame_i \in DOMAIN @ THEN @
                                     ELSE WithPose(@, frame_i, 0)]
                    /\ frame_i' = frame_i + 1
                    /\ UNCHANGED <<pc, ret>>
               ELSE /\ pc' = "panic"
                    /\ ret' = Panicked("sqpnp_solve_glam")
                    /\ UNCHANGED <<values, frame_i>>
    /\ UNCHANGED <<callvars, inputs, others>>

\* lines 393-404: bounds, disabled distortion parameters, the first solve
CalibSolve ==
    /\ pc = "calib_frames"
    /\ frame_i = Len(frames)
    /\ LET bounded == set_problem_parameter_bound(problem, camera, xy_same_focal)
           pv == set_problem_parameter_disabled(
                     [prob |-> bounded, vals |-> values], camera,
                     xy_same_focal, disabled_distortions)
       IN  /\ problem' = pv.prob
           /\ \E r \in optimize(pv.prob, pv.vals) :
                IF r.some
                THEN /\ values' = r.val
                     /\ pc' = IF fixed_focal THEN "calib_second_pass"
                              ELSE "calib_finish"
                     /\ UNCHANGED ret
                ELSE /\ values' = pv.vals
                     /\ pc' = "panic"
                     /\ ret' = Panicked("optimize")
    /\ UNCHANGED <<callvars, inputs, others, frame_i, valid_indexes>>

\* a faulty variant that pins the focal without resetting it to the starting focal
fix_focal_keep(result, generic_camera) == result

\* line 408: the first pass's focal is overwritten with the starting model's
fix_focal(result, generic_camera) ==
    [result EXCEPT !.params = SetAt(@, 0, At(generic_camera.params, 0))]

\* lines 405-410: the fixed-focal second pass
CalibSecondPass ==
    /\ pc = "calib_second_pass"
    /\ problem' = [problem EXCEPT !.fixed = @ \cup {0}]
    /\ \E r \in optimize(problem', fix_focal(values, camera)) :
         IF r.some
         THEN /\ values' = r.val
              /\ pc' = "calib_finish"
              /\ UNCHANGED ret
         ELSE /\ values' = fix_focal(values, camera)
              /\ pc' = "panic"
              /\ ret' = Panicked("optimize (second pass)")
    /\ UNCHANGED <<callvars, inputs, others, frame_i, valid_indexes>>

\* a faulty variant that appends the copy of the focal instead of inserting it as fy
reinsert_fy_last(new_params, xy) ==
    IF xy THEN Append(new_params, Last(new_params)) ELSE new_params

\* lines 412-416: fy is reinserted as a copy of params[0]
reinsert_fy(new_params, xy) ==
    IF xy THEN insert_row(new_params, 1, At(new_params, 0)) ELSE new_params

\* lines 412-432: the returned model and the poses of valid_indexes
CalibFinish ==
    /\ pc = "calib_finish"
    /\ IF \A k \in 1..Len(valid_indexes) : valid_indexes[k] \in DOMAIN values.poses
       THEN /\ ret' = [status |-> "returned", why |-> "",
                       params |-> reinsert_fy(values.params, xy_same_focal),
                       rtvec_vec |-> [k \in 1..Len(valid_indexes) |->
                                         values.poses[valid_indexes[k]]]]
            /\ pc' = IF caller = "init_ucm" THEN "try_init_result" ELSE "returned"
       ELSE /\ ret' = Panicked("result.remove")
            /\ pc' = "panic"
    /\ UNCHANGED <<callvars, inputs, others, frame_i, valid_indexes, problem,
                   values>>

(***************************************************************************)
(* validation.                                                             *)
(***************************************************************************)
NoReport == [status |-> "none", used |-> <<>>, total |-> 0, median |-> 0,
             len_99_percent |-> 0, avg_99 |-> F64Zero(FALSE)]

RECURSIVE PresentIdxs(_, _)
PresentIdxs(fs, n) ==
    IF n = 0 THEN <<>>
    ELSE IF fs[n].some THEN Append(PresentIdxs(fs, n - 1), n - 1)
         ELSE PresentIdxs(fs, n - 1)

\* a faulty variant that enumerates the frames before dropping the absent ones
validation_frames_unfiltered(fs) ==
    LET present == PresentIdxs(fs, Len(fs))
    IN  [k \in 1..Len(present) |-> [i |-> present[k], frame |-> present[k]]]

\* lines 441-445, iter().filter_map(|f| f.clone()).enumerate(): the present
\* frames, each with the index i it is given (the index into rtvec_list)
validation_frames(fs) ==
    LET present == PresentIdxs(fs, Len(fs))
    IN  [k \in 1..Len(present) |-> [i |-> k - 1, frame |-> present[k]]]

\* line 496, sort_by(partial_cmp) on numbers: the ascending rearrangement; its
\* k-th element is the value v with fewer than k errors below v and at least k
\* errors not above v
sorted_errors(errors) ==
    LET idx == 1..Len(errors)
        vals == {errors[j] : j \in idx}
    IN  [k \in idx |->
            CHOOSE v \in vals :
                /\ Cardinality({j \in idx : errors[j] < v}) < k
                /\ k <= Cardinality({j \in idx : errors[j] <= v})]

\* a faulty variant that reports the lower middle element
median_index_lower(len) == (len - 1) \div 2

\* line 499: the index of the reported median
median_index(len) == len \div 2

\* line 501: len_99_percent
len_99_percent(len) == (len * 99) \div 100

\* lines 504-508, Iterator::sum::<f64>() of the quotients of sorted[lo..hi]
\* onto acc, left to right; each quotient and each addition is rounded
RECURSIVE sum_of_quotients(_, _, _, _, _)
sum_of_quotients(acc, sorted, lo, hi, len99) ==
    IF lo > hi THEN acc
    ELSE IF lo = hi THEN F64Add(acc, F64DivInt(F64(sorted[lo]), len99))
    ELSE LET mid == (lo + hi) \div 2
             first == sum_of_quotients(acc, sorted, lo, mid, len99)
         IN  \* the sum of the first half is computed before the rest is added
             IF first.m = <<>> THEN sum_of_quotients(first, sorted, mid + 1, hi, len99)
             ELSE sum_of_quotients(first, sorted, mid + 1, hi, len99)

\* iter().take(len_99_percent).map(|p| *p / len_99_percent as f64).sum(): the
\* sum starts from -0.0
avg_of_first(sorted, len99) ==
    sum_of_quotients(F64Zero(TRUE), sorted, 1, len99, len99)

\* lines 441-509; recording_option is None
Validation ==
    /\ pc \in {"returned", "validation"}
    /\ LET vf == validation_frames(frames)
           rtvec_list == ret.rtvec_vec
           sorted == sorted_errors(point_errors)
           len99 == len_99_percent(Len(sorted))
       IN  IF \E k \in 1..Len(vf) : vf[k].i >= Len(rtvec_list)
           THEN /\ report' = [NoReport EXCEPT !.status = "panic: rtvec_list index"]
                /\ pc' = "panic"
           ELSE IF Len(sorted) = 0
           THEN /\ report' = [NoReport EXCEPT
                                 !.status = "panic: median index",
                                 !.used = [k \in 1..Len(vf) |->
                                     [frame |-> vf[k].frame,
                                      pose |-> rtvec_list[vf[k].i + 1]]]]
                /\ pc' = "panic"
           ELSE /\ report' = [status |-> "ok",
                              used |-> [k \in 1..Len(vf) |->
                                  [frame |-> vf[k].frame,
                                   pose |-> rtvec_list[vf[k].i + 1]]],
                              total |-> Len(sorted),
                              median |-> sorted[median_index(Len(sorted)) + 1],
                              len_99_percent |-> len99,
                              avg_99 |-> avg_of_first(sorted, len99)]
                /\ pc' = "validated"
    /\ UNCHANGED <<callvars, inputs, frame_i, problem, values, valid_indexes,
                   ret, init_ret, target, best>>

(***************************************************************************)
(* find_best_two_frames as an operation.                                   *)
(***************************************************************************)
NoBest == [status |-> "none", pair |-> <<>>]

FindBestTwoFrames ==
    /\ pc = "find_best_two_frames"
    /\ best' = find_best_two_frames(frames)
    /\ pc' = IF best'.status = "ok" THEN "done" ELSE "panic"
    /\ UNCHANGED <<callvars, inputs, frame_i, problem, values, valid_indexes,
                   ret, init_ret, target, report>>

(***************************************************************************)
(* try_init_camera and init_ucm.                                           *)
(***************************************************************************)
NoInitRet == [status |-> "none", params |-> <<>>]

\* radial_distortion_homography and homography_to_focal: lambda and the
\* unit-plane focal, if one can be extracted
HomographyOutcomes ==
    {[lambda |-> l, f_option |-> f] :
        l \in {-1, 1}, f \in {None} \cup {Some(Num(u)) : u \in 0..MaxVal}}

\* lines 109-116: init_f; the halves of the image size are f64 quotients
init_f(fixed, unit_plane_focal, img) ==
    LET half_w == Frac(img[1], 2)
        half_h == Frac(img[2], 2)
        half_img_size == FracMax(half_h, half_w)
    IN  IF fixed.some THEN fixed.val ELSE FracMul(unit_plane_focal, half_img_size)

\* lines 237-244 and 310-315: the UCM built from (focal, focal, w/2, h/2, alpha)
ucm_model(focal, alpha, img) ==
    [params |-> <<focal, focal, Frac(img[1], 2), Frac(img[2], 2), alpha>>,
     w |-> img[1], h |-> img[2]]

\* try_init_camera lines 92-126 and init_ucm lines 237-299: the homography
\* bootstrap and the set-up of the two-parameter seed problem
TryInitCamera ==
    /\ pc = "try_init_camera"
    /\ \E hg \in HomographyOutcomes :
         IF ~hg.f_option.some
         THEN /\ init_ret' = [status |-> "None", params |-> <<>>]
              /\ pc' = "done"
              /\ UNCHANGED <<camera, values, problem>>
         ELSE LET f == init_f(focal_arg, hg.f_option.val, frames[1].img)
                  init_alpha == Num(Abs(hg.lambda))
              IN  /\ camera' = ucm_model(f, init_alpha, frames[1].img)
                  /\ values' = [params |-> <<f, init_alpha>>,
                                poses |-> WithPose(WithPose(NoPoses, 0, 0), 1, 0)]
                  /\ problem' = [fixed |-> IF focal_arg.some THEN {0} ELSE {},
                                 bounded |-> {0, 1},
                                 pose_blocks |-> {i \in {0, 1} :
                                                    Len(frames[i + 1].pts) > 0}]
                  /\ pc' = "init_ucm_solve"
                  /\ UNCHANGED init_ret
    /\ UNCHANGED <<inputs, xy_same_focal, disabled_distortions, fixed_focal,
                   caller, frame_i, valid_indexes, ret, target, best, report>>

\* init_ucm lines 300-329: the seed solve; on success the two-frame
\* calib_camera(.., &ucm_camera, true, 0, fixed_focal) call
InitUcmSolve ==
    /\ pc = "init_ucm_solve"
    /\ \E r \in optimize(problem, values) :
         IF r.some
         THEN /\ camera' = ucm_model(At(r.val.params, 0), At(r.val.params, 1),
                                     frames[1].img)
              /\ values' = r.val
              /\ xy_same_focal' = TRUE
              /\ disabled_distortions' = 0
              /\ fixed_focal' = focal_arg.some
              /\ caller' = "init_ucm"
              /\ pc' = "calib_camera"
              /\ UNCHANGED init_ret
         ELSE /\ init_ret' = [status |-> "None", params |-> <<>>]
              /\ pc' = "done"
              /\ UNCHANGED <<callvars, values>>
    /\ UNCHANGED <<inputs, frame_i, problem, valid_indexes, ret, target, best,
                   report>>

\* init_ucm line 317-326 and try_init_camera lines 128-134: the model the
\* two-frame calib_camera returned, refused when its focal is 0
TryInitResult ==
    /\ pc = "try_init_result"
    /\ init_ret' = IF At(ret.params, 0) = Num(0)
                   THEN [status |-> "None", params |-> <<>>]
                   ELSE [status |-> "Some", params |-> ret.params]
    /\ pc' = "done"
    /\ UNCHANGED <<callvars, inputs, frame_i, problem, values, valid_indexes,
                   ret, target, best, report>>

(***************************************************************************)
(* convert_model.                                                          *)
(***************************************************************************)
NoTarget == [params |-> <<>>, w |-> 0, h |-> 0, params_at_call |-> <<>>,
             sampled |-> FALSE, status |-> "none", why |-> ""]
Target(m) == [params |-> m.params, w |-> m.w, h |-> m.h,
              params_at_call |-> m.params, sampled |-> FALSE,
              status |-> "none", why |-> ""]

\* ModelConvertFactor::new: refuses models of different image sizes, else
\* samples the pixel grid through the source model
ModelConvertFactorNew(source, tgt, edge_pixels, steps) ==
    [ok |-> source.w = tgt.w /\ source.h = tgt.h]

\* lines 201-203: the target's parameters with the source's camera_params
\* (fx, fy, cx, cy) copied over the first four
target_params_init(source, tgt) ==
    SubSeq(source.params, 1, 4) \o SubSeq(tgt.params, 5, Len(tgt.params))

\* a faulty variant that writes the initial parameters into the target before the
\* factor is built
convert_model_entry_late(source, tgt) ==
    LET edge_pixels == Max(source.w, source.h) \div 100
        steps == Max(source.w, source.h) \div 30
        seeded == [tgt EXCEPT !.params = target_params_init(source, tgt)]
    IN  IF ModelConvertFactorNew(source, tgt, edge_pixels, steps).ok
        THEN [seeded EXCEPT !.sampled = TRUE]
        ELSE [seeded EXCEPT !.status = "panic", !.why = "ModelConvertFactor::new"]

\* lines 190-193: the first thing convert_model does with its models is to
\* build the factor
convert_model_entry(source, tgt) ==
    LET edge_pixels == Max(source.w, source.h) \div 100
        steps == Max(source.w, source.h) \div 30
    IN  IF ModelConvertFactorNew(source, tgt, edge_pixels, steps).ok
        THEN [tgt EXCEPT !.sampled = TRUE]
        ELSE [tgt EXCEPT !.status = "panic", !.why = "ModelConvertFactor::new"]

ConvertBegin ==
    /\ pc = "convert_model"
    /\ target' = convert_model_entry(camera, target)
    /\ pc' = IF target'.status = "panic" THEN "panic" ELSE "convert_solve"
    /\ UNCHANGED <<callvars, inputs, frame_i, problem, values, valid_indexes,
                   ret, init_ret, best, report>>

\* lines 194-225: initial values, bounds, disabled parameters, the solve, and
\* set_params on the target
ConvertSolve ==
    /\ pc = "convert_solve"
    /\ LET initial == [params |-> target_params_init(camera, target),
                       poses |-> NoPoses]
           bounded == set_problem_parameter_bound(NewProblem, target, FALSE)
           pv == set_problem_parameter_disabled(
                     [prob |-> bounded, vals |-> initial], target, FALSE,
                     disabled_distortions)
       IN  /\ problem' = pv.prob
           /\ \E r \in optimize(pv.prob, pv.vals) :
                IF r.some
                THEN /\ values' = r.val
                     /\ target' = [target EXCEPT !.params = r.val.params,
                                                 !.status = "returned"]
                     /\ pc' = "done"
                ELSE /\ values' = pv.vals
                     /\ target' = [target EXCEPT !.status = "panic",
                                                 !.why = "optimize"]
                     /\ pc' = "panic"
    /\ UNCHANGED <<callvars, inputs, frame_i, valid_indexes, ret, init_ret,
                   best, report>>

(***************************************************************************)
(* The inputs of the calls.                                                *)
(***************************************************************************)
Points(n) == [k \in 1..n |-> <<0, 0>>]

\* calib_camera's frames: absent, or n features of which u unproject under the
\* starting model; the pose solver cannot succeed on no point
CalibFrames ==
    {NoFrame} \cup
    {Frame(Points(n), u, p) : n \in 0..MaxPts, u \in 0..MaxPts, p \in BOOLEAN}
CalibFrameValues == {f \in CalibFrames : f.unproj <= Len(f.pts)
                                         /\ (f.unproj = 0 => ~f.pnp)}
\* try_init_camera's frames: the same, with the image size of the recording
InitFrameValues(img) ==
    {IF f.some THEN [f EXCEPT !.img = img] ELSE f : f \in CalibFrameValues}
CalibFrameSeqs == UNION {[1..n -> CalibFrameValues] : n \in 0..MaxFrames}

\* camera models: fx, fy, cx, cy and d distortion parameters
Models(img) ==
    {[params |-> Vector(4 + d, c), w |-> img[1], h |-> img[2]] :
        d \in 0..MaxDistortion, c \in 0..MaxVal}

TotalPoints(fs) == SumSeq([k \in 1..Len(fs) |-> Len(fs[k].pts)])
Ones(n) == [k \in 1..n |-> 1]

\* find_best_two_frames's frames: features at pixels of a small set
Pixels == <<<<0, 0>>, <<30, 0>>, <<0, 30>>, <<3, 3>>>>
\* the n features of a frame: n of the pixels, taken in turn from the r-th on
PixelRun(r, n) == [k \in 1..n |-> Pixels[((r + k - 2) % Len(Pixels)) + 1]]
SelFrameValues ==
    {NoFrame} \cup {Frame(PixelRun(r, n), 0, FALSE) :
                       r \in 1..Len(Pixels), n \in 0..SelMaxPts}
SelFrameSeqs == UNION {[1..n -> SelFrameValues] : n \in 0..SelMaxFrames}

\* validation's errors: every short sequence, the errors 1..10 (sorted and
\* shuffled), and long sequences (99% of the count is not the count minus 1)
ToyErrors == {<<1, 2, 3, 4, 5, 6, 7, 8, 9, 10>>, <<10, 3, 1, 7, 5, 9, 2, 8, 4, 6>>}
LongErrors == {[k \in 1..n |-> ((k * 7) % 11) + 1] : n \in {100, 101, 200}}
ErrorInputs ==
    UNION {[1..n -> 1..MaxErr] : n \in 0..MaxErrs} \cup ToyErrors \cup LongErrors

Idle ==
    /\ caller = "user"
    /\ frame_i = 0
    /\ problem = NewProblem
    /\ values = [params |-> <<>>, poses |-> NoPoses]
    /\ valid_indexes = <<>>
    /\ ret = NoRet
    /\ init_ret = NoInitRet
    /\ best = NoBest
    /\ report = NoReport

InitCalib ==
    /\ op = "calib_camera"
    /\ pc = "calib_camera"
    /\ frames \in CalibFrameSeqs
    /\ camera \in Models(DefaultImg)
    /\ xy_same_focal \in BOOLEAN
    /\ fixed_focal \in BOOLEAN
    /\ disabled_distortions \in 0..(Len(camera.params) - 4)
    /\ focal_arg = None
    /\ target = NoTarget
    /\ point_errors = Ones(TotalPoints(frames))
    /\ Idle

InitTryInit ==
    /\ op = "try_init_camera"
    /\ pc = "try_init_camera"
    /\ \E img \in ImageSizes :
         frames \in {fs \in [1..2 -> InitFrameValues(img)] : fs[1].some /\ fs[2].some}
    /\ camera = [params |-> <<>>, w |-> 0, h |-> 0]
    /\ xy_same_focal = FALSE
    /\ fixed_focal = FALSE
    /\ disabled_distortions = 0
    /\ focal_arg \in {None} \cup {Some(Num(f)) : f \in 0..MaxVal}
    /\ target = NoTarget
    /\ point_errors = <<>>
    /\ Idle

InitConvert ==
    /\ op = "convert_model"
    /\ pc = "convert_model"
    /\ frames = <<>>
    /\ camera \in UNION {Models(img) : img \in ImageSizes}
    /\ \E m \in UNION {Models(img) : img \in ImageSizes} : target = Target(m)
    /\ xy_same_focal = FALSE
    /\ fixed_focal = FALSE
    /\ disabled_distortions \in 0..(Len(target.params) - 4)
    /\ focal_arg = None
    /\ point_errors = <<>>
    /\ Idle

InitSelect ==
    /\ op = "find_best_two_frames"
    /\ pc = "find_best_two_frames"
    /\ frames \in SelFrameSeqs
    /\ camera = [params |-> <<>>, w |-> 0, h |-> 0]
    /\ xy_same_focal = FALSE
    /\ fixed_focal = FALSE
    /\ disabled_distortions = 0
    /\ focal_arg = None
    /\ target = NoTarget
    /\ point_errors = <<>>
    /\ Idle

\* validation called on its own, on what a calib_camera call left: one frame
\* holding all the points, and its pose
InitValidation ==
    /\ op = "validation"
    /\ pc = "validation"
    /\ point_errors \in ErrorInputs
    /\ frames = <<Frame(Points(Len(point_errors)), Len(point_errors), TRUE)>>
    /\ camera = [params |-> Vector(4, 0), w |-> DefaultImg[1], h |-> DefaultImg[2]]
    /\ xy_same_focal = FALSE
    /\ fixed_focal = FALSE
    /\ disabled_distortions = 0
    /\ focal_arg = None
    /\ target = NoTarget
    /\ caller = "user"
    /\ frame_i = 0
    /\ problem = NewProblem
    /\ values = [params |-> camera.params, poses |-> WithPose(NoPoses, 0, 0)]
    /\ valid_indexes = <<0>>
    /\ ret = [status |-> "returned", why |-> "", params |-> camera.params,
              rtvec_vec |-> <<0>>]
    /\ init_ret = NoInitRet
    /\ best = NoBest
    /\ report = NoReport

\* The pipeline: calib_camera (with validation of its result), try_init_camera
\* and convert_model
Init == InitCalib \/ InitTryInit \/ InitConvert

Next ==
    \/ CalibBegin
    \/ CalibFrame
    \/ CalibSolve
    \/ CalibSecondPass
    \/ CalibFinish
    \/ Validation
    \/ TryInitCamera
    \/ InitUcmSolve
    \/ TryInitResult
    \/ ConvertBegin
    \/ ConvertSolve

Spec == Init /\ [][Next]_vars

\* find_best_two_frames on every sequence of frames within the bounds
NextSelect == FindBestTwoFrames
SpecSelect == InitSelect /\ [][NextSelect]_vars

\* validation's statistics on every collection of errors within the bounds
NextValidation == Validation
SpecValidation == InitValidation /\ [][NextValidation]_vars

(***************************************************************************)
(* Properties.                                                             *)
(***************************************************************************)
Range(s) == {s[k] : k \in 1..Len(s)}
Finished == pc \in {"panic", "returned", "validated", "done"}

\* C1: when calib_camera returns, the last disabled_distortions scalars of the
\* returned model's full parameter vector (fy reinserted) are exactly 0,
\* whatever xy_same_focal, fixed_focal and the starting values are.
C1_DisabledAreZero ==
    ret.status = "returned" =>
        \A j \in 1..disabled_distortions :
            ret.params[Len(ret.params) + 1 - j] = Num(0)

\* C1's case: a call with fy removed and the second pass, that disabled two
\* parameters whose starting values were not both 0, has returned
C1_Witness ==
    /\ ret.status = "returned"
    /\ xy_same_focal /\ fixed_focal
    /\ disabled_distortions = 2
    /\ camera.params[Len(camera.params)] # Num(0)
    /\ ret.params[Len(ret.params)] = Num(0)
    /\ ret.params[Len(ret.params) - 1] = Num(0)
    /\ ret.params[3] # Num(0)

\* C2: when calib_camera returns from a call with xy_same_focal, the returned
\* vector is as long as the starting model's and its scalars 0 and 1 are equal.
C2_SameFocal ==
    (ret.status = "returned" /\ xy_same_focal) =>
        /\ Len(ret.params) = Len(camera.params)
        /\ ret.params[1] = ret.params[2]

\* C2's case: the starting fx and fy differ, the second pass ran and a
\* distortion parameter was disabled
C2_Witness ==
    /\ ret.status = "returned"
    /\ xy_same_focal /\ fixed_focal
    /\ disabled_distortions >= 1
    /\ camera.params[1] # camera.params[2]
    /\ ret.params[1] = ret.params[2]

\* frames of which no point unprojects, and frames the pose solver succeeds on
Unusable == {i \in 0..(Len(frames) - 1) :
                frames[i + 1].some /\ Len(frames[i + 1].pts) > 0
                /\ frames[i + 1].unproj = 0}
Usable == {i \in 0..(Len(frames) - 1) : frames[i + 1].some /\ frames[i + 1].pnp}

\* C3: a finished calib_camera call on frames of which one has no point that
\* unprojects and another has enough points has returned, and the frame
\* without usable points is neither a variable of the problem nor in
\* valid_indexes (the returned poses).
C3_UnusableFrameExcluded ==
    (op = "calib_camera" /\ Finished /\ Unusable # {} /\ Usable # {}) =>
        /\ ret.status = "returned"
        /\ Unusable \cap Range(valid_indexes) = {}
        /\ Unusable \cap problem.pose_blocks = {}

\* C4: neither calib_camera nor convert_model ends in a panic because the
\* solver reported no solution (on the first or on the second pass).
C4_NoSolutionIsRecoverable ==
    /\ ret.why \notin {"optimize", "optimize (second pass)"}
    /\ target.why # "optimize"

\* C5: a try_init_camera call never ends in a panic: every failure of the
\* bootstrap and of the seed stage, the two-frame calib_camera call included,
\* comes back as None.
C5_InitNeverAborts ==
    op = "try_init_camera" => pc # "panic"

\* C6: a convert_model call on models whose image width or height differ has
\* failed or is about to, with no grid sampled, no problem built or solved and
\* the target's parameters as they were at the call.
C6_MismatchFailsFast ==
    (op = "convert_model" /\ (camera.w # target.w \/ camera.h # target.h)) =>
        /\ pc \in {"convert_model", "panic"}
        /\ ~target.sampled
        /\ target.params = target.params_at_call
        /\ problem = NewProblem
        /\ values = [params |-> <<>>, poses |-> NoPoses]
        /\ pc = "panic" => target.why = "ModelConvertFactor::new"

\* C6's case: the call on models of different sizes has failed, and the
\* source's leading parameters differ from the target's
C6_Witness ==
    /\ op = "convert_model"
    /\ camera.h # target.h
    /\ pc = "panic"
    /\ SubSeq(camera.params, 1, 4) # SubSeq(target.params, 1, 4)

\* the errors validation collected, their count, and what the claim names
NumErrors == Len(point_errors)
RECURSIVE SumRange(_, _, _)
SumRange(s, lo, hi) ==
    IF lo > hi THEN 0
    ELSE IF lo = hi THEN s[lo]
    ELSE LET mid == (lo + hi) \div 2
         IN  SumRange(s, lo, mid) + SumRange(s, mid + 1, hi)
\* m is the element at 0-based position pos of the ascending errors
IsSortedElementAt(m, pos) ==
    /\ m \in Range(point_errors)
    /\ Cardinality({j \in 1..NumErrors : point_errors[j] < m}) <= pos
    /\ pos < Cardinality({j \in 1..NumErrors : point_errors[j] <= m})
TrimCount == (99 * NumErrors) \div 100
SumOfSmallest(n) == SumRange(sorted_errors(point_errors), 1, n)
\* the f64 v is the quotient sum / count up to the rounding of count divisions
\* and count additions: |v - sum / count| <= (count + 1) * 2^v.e
IsAverage(v, sum, count) ==
    /\ ~v.neg
    /\ v.e <= 0
    /\ LET a == BigMulSmall(v.m, count)
           b == BigShl(BigOf(sum), -v.e)
           diff == IF BigLess(a, b) THEN BigSub(b, a) ELSE BigSub(a, b)
       IN  ~BigLess(BigOf((count + 1) * count), diff)

\* C7 (as amended): validation reports as median the element at position
\* floor(n/2) of the ascending errors; for n >= 2 the trimmed mean is, up to
\* the rounding of the f64 operations, the average of the first
\* floor(99n/100) sorted errors, and for n = 1, where that prefix is empty, it
\* is the empty sum -0.0; the errors 1..10 give median 6 and trimmed mean 5.
C7_Statistics ==
    report.status = "ok" =>
        /\ report.total = NumErrors
        /\ IsSortedElementAt(report.median, NumErrors \div 2)
        /\ report.len_99_percent = TrimCount
        /\ NumErrors >= 2 =>
              /\ TrimCount >= 1
              /\ IsAverage(report.avg_99, SumOfSmallest(TrimCount), TrimCount)
        /\ NumErrors = 1 => report.avg_99 = F64Zero(TRUE)
        /\ point_errors \in ToyErrors =>
              /\ report.median = 6
              /\ report.len_99_percent = 9
              /\ report.avg_99 = F64(5)

\* C7's case: the shuffled errors 1..10 were validated
C7_Witness ==
    /\ report.status = "ok"
    /\ point_errors = <<10, 3, 1, 7, 5, 9, 2, 8, 4, 6>>
    /\ report.median = 6
    /\ report.avg_99 = F64(5)

\* C7 as stated: for every non-empty collection the trimmed mean is (up to
\* rounding) the average of the first floor(99n/100) sorted errors, an
\* average of at least one error.
C7_AsStated ==
    report.status = "ok" =>
        /\ IsSortedElementAt(report.median, NumErrors \div 2)
        /\ TrimCount >= 1
        /\ IsAverage(report.avg_99, SumOfSmallest(TrimCount), TrimCount)

\* exact arithmetic on fractions, for what the picks are measured against
FracAdd(a, b) == Frac(a.num * b.den + b.num * a.den, a.den * b.den)
FracSub(a, b) == Frac(a.num * b.den - b.num * a.den, a.den * b.den)
FracDivInt(a, n) == Frac(a.num, a.den * n)

\* the frames find_best_two_frames may pick from: the present frames with as
\* many features as the largest present frame, in frame order
PresentFrames == {i \in 0..(Len(frames) - 1) : frames[i + 1].some}
MaxFeatureCount ==
    CHOOSE m \in {Len(frames[i + 1].pts) : i \in PresentFrames} :
        \A j \in PresentFrames : Len(frames[j + 1].pts) <= m
CandidateSeq ==
    LET m == MaxFeatureCount
        IsCand(i) == frames[i + 1].some /\ Len(frames[i + 1].pts) = m
    IN  SelectSeq([k \in 1..Len(frames) |-> k - 1], IsCand)
\* the area of the axis-aligned bounding box of a frame's features
BoundingBoxArea(pts) ==
    LET xs == {pts[k][1] : k \in 1..Len(pts)}
        ys == {pts[k][2] : k \in 1..Len(pts)}
        Hi(S) == CHOOSE a \in S : \A b \in S : a >= b
        Lo(S) == CHOOSE a \in S : \A b \in S : a <= b
    IN  (Hi(xs) - Lo(xs)) * (Hi(ys) - Lo(ys))
\* the average position of a frame's features, [x, y] in exact fractions
AveragePosition(pts) ==
    [x |-> Frac(SumSeq([k \in 1..Len(pts) |-> pts[k][1]]), Len(pts)),
     y |-> Frac(SumSeq([k \in 1..Len(pts) |-> pts[k][2]]), Len(pts))]
RECURSIVE FracSum(_)
FracSum(s) == IF s = <<>> THEN Num(0) ELSE FracAdd(s[1], FracSum(Tail(s)))
\* per candidate (in frame order): bounding-box area, and squared distance of
\* its average position from the centroid of the candidates' averages
CandidateAreas(cs) ==
    Seq_([k \in 1..Len(cs) |-> BoundingBoxArea(frames[cs[k] + 1].pts)])
CandidateDists(cs) ==
    LET avgs == Seq_([k \in 1..Len(cs) |-> AveragePosition(frames[cs[k] + 1].pts)])
        cx == FracDivInt(FracSum([k \in 1..Len(cs) |-> avgs[k].x]), Len(cs))
        cy == FracDivInt(FracSum([k \in 1..Len(cs) |-> avgs[k].y]), Len(cs))
        Sq(a) == FracMul(a, a)
    IN  Seq_([k \in 1..Len(cs) |->
                 FracAdd(Sq(FracSub(avgs[k].x, cx)), Sq(FracSub(avgs[k].y, cy)))])
PositionIn(cs, i) == CHOOSE k \in 1..Len(cs) : cs[k] = i

\* C8, the candidates: both indices find_best_two_frames returns are present
\* frames with the maximum feature count, and a frame with strictly more
\* features than all others is returned as both picks.
C8_PicksAreCandidates ==
    (op = "find_best_two_frames" /\ best.status = "ok") =>
        LET cs == Seq_(CandidateSeq)
        IN  /\ \E k \in 1..Len(cs) : cs[k] = best.pair[1]
            /\ \E k \in 1..Len(cs) : cs[k] = best.pair[2]
            /\ Len(cs) = 1 => best.pair = <<cs[1], cs[1]>>

\* C8, the second pick: no candidate's average position is farther from the
\* candidates' centroid than the second pick's.
C8_SecondIsFarthest ==
    (op = "find_best_two_frames" /\ best.status = "ok") =>
        LET cs == Seq_(CandidateSeq)
            dists == CandidateDists(cs)
        IN  \A k \in 1..Len(cs) :
                ~FracLess(dists[PositionIn(cs, best.pair[2])], dists[k])

\* C8: the pair find_best_two_frames returns consists of present frames with
\* the maximum feature count; the first has the largest bounding-box area
\* among those and the second an average position farthest from their
\* centroid; a frame with strictly more features than all others is both.
C8_BestTwoFrames ==
    (op = "find_best_two_frames" /\ best.status = "ok") =>
        LET cs == Seq_(CandidateSeq)
            areas == CandidateAreas(cs)
        IN  /\ C8_PicksAreCandidates
            /\ C8_SecondIsFarthest
            /\ \A k \in 1..Len(cs) :
                  areas[k] <= areas[PositionIn(cs, best.pair[1])]

\* C9: a calib_camera call with fixed_focal returns the starting model's focal
\* as scalar 0, and a model try_init_camera returns for fixed_focal = Some(f)
\* has fx = fy = f.
C9_FixedFocal ==
    /\ (ret.status = "returned" /\ fixed_focal) =>
            ret.params[1] = camera.params[1]
    /\ (init_ret.status = "Some" /\ focal_arg.some) =>
            /\ init_ret.params[1] = focal_arg.val
            /\ init_ret.params[2] = focal_arg.val

\* C9's case: try_init_camera(.., Some(f)) returned a model
C9_Witness ==
    /\ init_ret.status = "Some"
    /\ focal_arg.some
    /\ fixed_focal
    /\ init_ret.params[1] = focal_arg.val

\* C10: calib_camera returns one pose per present frame in increasing frame
\* order, each the solver's pose of that frame; validation on that list and
\* the same frames never indexes past the list and uses for every present
\* frame the pose calib_camera produced for it.
C10_PosesStayAttached ==
    /\ ret.status = "returned" =>
          /\ Range(valid_indexes) = PresentFrames
          /\ \A k \in 1..(Len(valid_indexes) - 1) :
                valid_indexes[k] < valid_indexes[k + 1]
          /\ Len(ret.rtvec_vec) = Len(valid_indexes)
          /\ \A k \in 1..Len(valid_indexes) :
                ret.rtvec_vec[k] = values.poses[valid_indexes[k]]
    /\ (op = "calib_camera" /\ report.status # "none") =>
          /\ report.status # "panic: rtvec_list index"
          /\ {report.used[k].frame : k \in 1..Len(report.used)} = PresentFrames
          /\ \A k \in 1..Len(report.used) :
                report.used[k].pose = values.poses[report.used[k].frame]

\* C10's case: validation ran on the poses of a sequence whose first entry is
\* absent, so that frame indices and pose indices differ
C10_Witness ==
    /\ op = "calib_camera"
    /\ report.status = "ok"
    /\ Len(frames) >= 2
    /\ ~frames[1].some
    /\ frames[2].some
    /\ report.used[1] = [frame |-> 1, pose |-> values.poses[1]]

====
